---- MODULE Spec2Model ----
(***************************************************************************)
(* Model of stalk_trace.js: an instruction-level tracer built on an        *)
(* interception engine (Interceptor), a code-following engine (Stalker)    *)
(* and a native capture module (CModule).                                  *)
(*                                                                         *)
(* The script is modelled together with the part of the engine interface   *)
(* it drives: threads of the traced process run small ARM64 programs, the  *)
(* engine offers every basic block of a followed thread to `transform`,    *)
(* and the callouts `transform` inserted run before their instruction.     *)
(***************************************************************************)
EXTENDS Integers, Sequences, FiniteSets, TLC

VARIABLES
    prog,        \* which native program the process runs (fixed by Init)
    cm,          \* line 38/42: TRUE iff `new CModule(cmSource)` succeeded
    simdBuffer,  \* line 39/43: <<>> (null) or the 256 bytes of the buffer
    crashed,     \* the traced process died (native write through a null pointer)
    regs,        \* regs[t]: the live CPU context of thread t (general registers)
    vregs,       \* vregs[t][i]: the 16 bytes of vector register v_i of thread t
    mode,        \* mode[t]: "off" | "run" | "entering" | "leaving" | "done"
    frames,      \* frames[t]: return addresses of the calls in progress
    depth,       \* depth[t]: number of activations of the traced function
    followed,    \* followed[t]: the Stalker follows thread t
    boundCtx,    \* boundCtx[t]: the `this` captured by the installed transform
    todo,        \* todo[t]: what is left of the instrumented block being run
    acts,        \* acts[<<t, d>>]: the invocation context (`this`) of an activation
    out,         \* the lines written by console.log, in order
    engineLog,   \* engineLog[t]: the Stalker calls made on thread t, in order
    offered,     \* offered[t]: the block last offered to `transform` for thread t
    compiled,    \* compiled[t]: what `transform` made of it
    last,        \* last[t]: what the most recent step of thread t did
    hist         \* hist[a]: history of the invocation context a (see NoHistory)

vars == << prog, cm, simdBuffer, crashed, regs, vregs, mode, frames, depth,
           followed, boundCtx, todo, acts, out, engineLog, offered, compiled,
           last, hist >>

-----------------------------------------------------------------------------
(* Bounds of the model *)

MaxThreads == 2      \* threads of the traced process
MaxDepth == 2        \* nesting of activations of the traced function
LoopIters == 101     \* largest trip count of the hot loop
MaxArg == 2          \* largest argument value passed in x0 / x1

(* Constants of the program *)

LOOP_THRESHOLD == 10
STR_PEEK_LEN == 32
TARGET_OFFSET == 2620
SAMPLE_PERIOD == 100
POINTER_FLOOR == 65536
NUM_CAPTURED == 16
VEC_BYTES == 16

(* Layout of the traced process *)

TARGET_MODULE == "libnative-lib.so"
TargetBase == 4194304
TargetSize == 8192
LibcBase == 8388608
LibcSize == 4096
AnonBase == 12582912
StackTop == 16777216

Threads == 1 .. MaxThreads
ActIds == Threads \X (1 .. MaxDepth)
NoCtx == << 0, 0 >>

-----------------------------------------------------------------------------
(* NativePointer.toString(): "0x" followed by lower-case hex digits *)

HexDigit(d) == SubSeq("0123456789abcdef", d + 1, d + 1)

RECURSIVE Hex(_)
Hex(n) == IF n < 16 THEN HexDigit(n) ELSE Hex(n \div 16) \o HexDigit(n % 16)

PtrToString(n) == "0x" \o Hex(n)

(* Number.prototype.toString(16).padStart(2, '0') of one byte *)
ByteHex(b) == HexDigit(b \div 16) \o HexDigit(b % 16)

(* Decimal rendering of a small integer, as a template literal prints it *)
RECURSIVE Dec(_)
Dec(n) == IF n < 0 THEN "-" \o Dec(0 - n)
          ELSE IF n < 10 THEN HexDigit(n)
          ELSE Dec(n \div 10) \o HexDigit(n % 10)

StartsWith(s, p) == Len(s) >= Len(p) /\ SubSeq(s, 1, Len(p)) = p

Substring1(s) == SubSeq(s, 2, Len(s))

CharAt(s, i) == SubSeq(s, i, i)

IsDigit(c) == c \in { HexDigit(d) : d \in 0 .. 9 }

DigitVal(c) == CHOOSE d \in 0 .. 9 : HexDigit(d) = c

-----------------------------------------------------------------------------
(* The CPU context: x0 - x28, fp, lr, sp, pc (cmSource lines 18-25 and the  *)
(* fields the engine's context object exposes).  Values stay far below     *)
(* 2^31, so 64-bit wrap-around never occurs in the runs explored.          *)

XRegs == { "x" \o Dec(i) : i \in 0 .. 28 }
RegNames == XRegs \cup { "fp", "lr", "sp", "pc" }

(* context[name] of the JS context object: undefined for a foreign name *)
Undefined == [t |-> "undef"]
Ptr(n) == [t |-> "ptr", v |-> n]
Str(s) == [t |-> "str", s |-> s]

ContextField(context, name) ==
    IF name \in RegNames THEN Ptr(context[name]) ELSE Undefined

-----------------------------------------------------------------------------
(* Memory of the traced process, as far as the script reads it.  The data  *)
(* page holds "OK" followed by unprintable bytes, a longer string, a       *)
(* pointer, "OK" followed by printable bytes, and a pointer in its last    *)
(* word; everything outside it is unmapped and a read there throws.        *)

DataBase == 2097152
DataSize == 136

OkAddr == DataBase
HelloAddr == DataBase + 32
PtrAddr == DataBase + 64
OkTextAddr == DataBase + 96
TailAddr == DataBase + 128

Ascii == " !\"#$%&'()*+,-./0123456789:;<=>?@ABCDEFGHIJKLMNOPQRSTUVWXYZ[\\]^_ abcdefghijklmnopqrstuvwxyz{|}~"

(* String.fromCharCode of a printable byte; the grave accent (96), which a  *)
(* TLA+ string cannot hold, is written "GRAVE"                             *)
Chr(b) == IF b = 96 THEN "GRAVE" ELSE CharAt(Ascii, b - 31)

Ord(c) == CHOOSE b \in 32 .. 126 : Chr(b) = c

RECURSIVE LEBytes(_, _)
LEBytes(n, k) == IF k = 0 THEN << >> ELSE << n % 256 >> \o LEBytes(n \div 256, k - 1)

Fill(b, k) == [i \in 1 .. k |-> b]

DataBytes ==
    << Ord("O"), Ord("K"), 0 >> \o Fill(127, 29)
    \o << Ord("H"), Ord("e"), Ord("l"), Ord("l"), Ord("o"), 0 >> \o Fill(7, 26)
    \o LEBytes(HelloAddr, 8) \o Fill(1, 24)
    \o << Ord("O"), Ord("K"), 0 >> \o Fill(Ord("A"), 29)
    \o LEBytes(HelloAddr, 8)

Readable(addr, len) == addr >= DataBase /\ addr + len <= DataBase + DataSize

(* ptr.readByteArray(len): the bytes, defined only when Readable *)
ReadByteArray(addr, len) == [i \in 1 .. len |-> DataBytes[addr - DataBase + i]]

RECURSIVE FromLE(_)
FromLE(bytes) == IF bytes = << >> THEN 0 ELSE Head(bytes) + 256 * FromLE(Tail(bytes))

(* ptr.readPointer(): a little-endian machine word, of which the model     *)
(* keeps the low four bytes.  The words the model prints (at PtrAddr and   *)
(* TailAddr) have zero high bytes; of the others only the low bits and the *)
(* magnitude of the low half are looked at.                                *)
ReadPointer(addr) == FromLE(ReadByteArray(addr, 4))

RECURSIVE Utf8(_)
Utf8(bytes) == IF bytes = << >> THEN "" ELSE Chr(Head(bytes)) \o Utf8(Tail(bytes))

(* ptr.readUtf8String(len) on printable ASCII *)
ReadUtf8String(addr, len) == Utf8(ReadByteArray(addr, len))

-----------------------------------------------------------------------------
(* lines 50-53: the colour table with ENABLE_COLOR = true; the escape byte *)
(* is written ESC                                                          *)

C_RESET == "ESC[0m"
C_RED == "ESC[31m"
C_GREEN == "ESC[32m"
C_YELLOW == "ESC[33m"
C_BLUE == "ESC[34m"
C_MAGENTA == "ESC[35m"
C_CYAN == "ESC[36m"
C_GRAY == "ESC[90m"

-----------------------------------------------------------------------------
(* a pointer check without the alignment test *)
isSafePointerNoAlign(ptrVal) == ptrVal # 0 /\ ptrVal >= POINTER_FLOOR

(* lines 60-67 *)
isSafePointer(ptrVal) ==
    IF ptrVal = 0 THEN FALSE
    ELSE IF ptrVal < POINTER_FLOOR THEN FALSE
    ELSE IF ptrVal % 8 # 0 THEN FALSE
    ELSE TRUE

(* lines 69-77: sixteen bytes, last byte first *)
RECURSIVE HexDown(_, _)
HexDown(u8, i) == IF i = 0 THEN "" ELSE ByteHex(u8[i]) \o HexDown(u8, i - 1)

(* the sixteen bytes in memory order *)
toHex128Ascending(buffer, offset) ==
    LET F[i \in 0 .. VEC_BYTES] ==
            IF i = 0 THEN "" ELSE F[i - 1] \o ByteHex(buffer[offset + i])
    IN  "0x" \o F[VEC_BYTES]

toHex128(buffer, offset) ==
    "0x" \o HexDown([i \in 1 .. VEC_BYTES |-> buffer[offset + i]], VEC_BYTES)

(* regName.match(/\d+/): the first run of decimal digits, or "" *)
RECURSIVE DigitRun(_, _)
DigitRun(s, i) ==
    IF i > Len(s) \/ ~IsDigit(CharAt(s, i)) THEN ""
    ELSE CharAt(s, i) \o DigitRun(s, i + 1)

RECURSIVE FirstDigits(_, _)
FirstDigits(s, i) ==
    IF i > Len(s) THEN ""
    ELSE IF IsDigit(CharAt(s, i)) THEN DigitRun(s, i)
    ELSE FirstDigits(s, i + 1)

RECURSIVE ParseInt(_)
ParseInt(s) ==
    IF Len(s) = 1 THEN DigitVal(s)
    ELSE 10 * ParseInt(SubSeq(s, 1, Len(s) - 1)) + DigitVal(CharAt(s, Len(s)))

SimdPrefixes == { "q", "d", "s", "h", "b" }

(* value.and(0xFFFFFFFF).  Register values of the model lie in 0 .. 2^31-1 *)
(* (the checker's integer range), where the low 32 bits are the value.     *)
Low32(n) == n

(* the lookup without rule 1 for sp and without the guard on the match:   *)
(* `match[0]` of a null match throws                                       *)
getRegisterValueNoSpRule(context, buffer, regName) ==
    IF regName = "wzr" \/ regName = "xzr" THEN Ptr(0)
    ELSE IF StartsWith(regName, "w") THEN
        LET xRegName == "x" \o Substring1(regName)
        IN  IF xRegName \in RegNames
            THEN Ptr(Low32(context[xRegName]))
            ELSE Undefined
    ELSE IF \E p \in SimdPrefixes : StartsWith(regName, p) THEN
        IF buffer = << >> THEN Str("(No-CModule)")
        ELSE LET match == FirstDigits(regName, 1)
             IN  IF match = "" THEN [t |-> "throw"]
                 ELSE LET regIndex == ParseInt(match)
                      IN  IF regIndex < NUM_CAPTURED
                          THEN Str(toHex128(buffer, regIndex * VEC_BYTES))
                          ELSE Str("(SIMD-OOB)")
    ELSE ContextField(context, regName)

(* lines 80-109 *)
getRegisterValue(context, buffer, regName) ==
    IF regName = "sp" THEN Ptr(context["sp"])
    ELSE IF regName = "wzr" \/ regName = "xzr" THEN Ptr(0)
    ELSE IF StartsWith(regName, "w") THEN
        LET xRegName == "x" \o Substring1(regName)
        IN  IF xRegName \in RegNames
            THEN Ptr(Low32(context[xRegName]))
            ELSE Undefined
    ELSE IF \E p \in SimdPrefixes : StartsWith(regName, p) THEN
        IF buffer = << >> THEN Str("(No-CModule)")
        ELSE LET match == FirstDigits(regName, 1)
             IN  IF match = "" THEN Str("?")
                 ELSE LET regIndex == ParseInt(match)
                      IN  IF regIndex < NUM_CAPTURED
                          THEN Str(toHex128(buffer, regIndex * VEC_BYTES))
                          ELSE Str("(SIMD-OOB)")
    ELSE ContextField(context, regName)

(* `${val}` in a template literal *)
ValToString(val) ==
    IF val.t = "ptr" THEN PtrToString(val.v)
    ELSE IF val.t = "str" THEN val.s
    ELSE "undefined"

(* lines 118-122: length of the printable run, or -1 when a byte is not    *)
(* printable before a terminator or the peek limit is met                  *)
RECURSIVE ScanPrintable(_, _)
ScanPrintable(u8, i) ==
    IF i > Len(u8) THEN 0
    ELSE IF u8[i] = 0 THEN 0
    ELSE IF u8[i] < 32 \/ u8[i] > 126 THEN -1
    ELSE LET rest == ScanPrintable(u8, i + 1)
         IN  IF rest < 0 THEN -1 ELSE 1 + rest

(* lines 127-131 *)
inspectPointed(ptrVal) ==
    IF ~Readable(ptrVal, 8) THEN ""
    ELSE LET pointed == ReadPointer(ptrVal)
         IN  IF isSafePointer(pointed)
             THEN C_BLUE \o " => *(" \o PtrToString(pointed) \o ")" \o C_RESET
             ELSE ""

(* the inspection accepting a printable run of two *)
inspectMemoryRunOfTwo(ptrVal) ==
    IF ~isSafePointer(ptrVal) THEN ""
    ELSE IF ~Readable(ptrVal, STR_PEEK_LEN) THEN inspectPointed(ptrVal)
    ELSE LET len == ScanPrintable(ReadByteArray(ptrVal, STR_PEEK_LEN), 1)
         IN  IF len >= 2
             THEN C_GREEN \o " => \"" \o ReadUtf8String(ptrVal, len) \o "\"" \o C_RESET
             ELSE inspectPointed(ptrVal)

(* lines 111-132 *)
inspectMemory(ptrVal) ==
    IF ~isSafePointer(ptrVal) THEN ""
    ELSE IF ~Readable(ptrVal, STR_PEEK_LEN) THEN inspectPointed(ptrVal)
    ELSE LET len == ScanPrintable(ReadByteArray(ptrVal, STR_PEEK_LEN), 1)
         IN  IF len > 2
             THEN C_GREEN \o " => \"" \o ReadUtf8String(ptrVal, len) \o "\"" \o C_RESET
             ELSE inspectPointed(ptrVal)

-----------------------------------------------------------------------------
Spaces == "                                        "

(* String.prototype.padEnd(n) for n <= 40 *)
PadEnd(s, n) == IF Len(s) >= n THEN s ELSE s \o SubSeq(Spaces, 1, n - Len(s))

(* Array.prototype.join(", ") *)
RECURSIVE Join(_)
Join(parts) ==
    IF parts = << >> THEN ""
    ELSE IF Len(parts) = 1 THEN parts[1]
    ELSE parts[1] \o ", " \o Join(Tail(parts))

-----------------------------------------------------------------------------
(* Decoded instructions, as Instruction.parse returns them *)

OpReg(name) == [type |-> "reg", value |-> name, num |-> 0, base |-> "", disp |-> 0]
OpImm(n) == [type |-> "imm", value |-> "", num |-> n, base |-> "", disp |-> 0]
OpMem(b, d) == [type |-> "mem", value |-> "", num |-> 0, base |-> b, disp |-> d]

Ins(mn, opStr, ops) == [mnemonic |-> mn, opStr |-> opStr, operands |-> ops]

(* lines 138-147: a register operand *)
formatRegOperand(op, context, buffer) ==
    LET got == getRegisterValue(context, buffer, op.value)
        val == IF got.t = "undef" THEN Str("?") ELSE got
        extra == IF (StartsWith(op.value, "x") \/ op.value = "sp") /\ val.t # "str"
                 THEN inspectMemory(val.v)
                 ELSE ""
    IN  C_MAGENTA \o op.value \o C_RESET \o "=" \o ValToString(val) \o extra

(* lines 148-163: a memory operand; base "" stands for an absent base *)
formatMemOperand(op, context, buffer) ==
    LET baseValue == IF op.base = "" THEN Undefined
                     ELSE getRegisterValue(context, buffer, op.base)
        resolved == baseValue.t = "ptr"
        calculatedAddr == IF resolved THEN baseValue.v + op.disp ELSE 0
        memAddress == IF resolved THEN PtrToString(calculatedAddr) ELSE "N/A"
        memContent ==
            IF resolved /\ Readable(calculatedAddr, 8)
            THEN LET loadedVal == ReadPointer(calculatedAddr)
                 IN  " " \o C_BLUE \o "[val=" \o PtrToString(loadedVal) \o "]"
                     \o C_RESET \o inspectMemory(loadedVal)
            ELSE ""
    IN  "[" \o (IF op.base = "" THEN "undefined" ELSE op.base) \o "+"
        \o Dec(op.disp) \o "]=" \o memAddress \o memContent

(* lines 164-166 *)
formatImmOperand(op) == C_GREEN \o "#" \o Dec(op.num) \o C_RESET

formatOperand(op, context, buffer) ==
    IF op.type = "reg" THEN formatRegOperand(op, context, buffer)
    ELSE IF op.type = "mem" THEN formatMemOperand(op, context, buffer)
    ELSE formatImmOperand(op)

(* lines 134-170 *)
formatOperandDetails(instruction, context, buffer) ==
    LET ops == instruction.operands
        details == [i \in 1 .. Len(ops) |-> formatOperand(ops[i], context, buffer)]
    IN  IF Len(details) > 0 THEN "(" \o Join(details) \o ")" ELSE ""

-----------------------------------------------------------------------------
(* lines 172-184 *)

GENERAL_REGS == << "x0", "x1", "x2", "x3", "x8", "fp", "lr", "sp" >>

NoRegs == [n \in {} |-> ""]

(* every watched register reported, changed or not *)
RegChangedAlways(lastRegs, regName, newValue) == TRUE

(* lastRegs[regName] !== newValue; a missing key reads as undefined *)
RegChanged(lastRegs, regName, newValue) ==
    regName \notin DOMAIN lastRegs \/ lastRegs[regName] # newValue

(* the `changed` array *)
ChangedRegs(context, lastRegs) ==
    LET Sel(i) == RegChanged(lastRegs, GENERAL_REGS[i], PtrToString(context[GENERAL_REGS[i]]))
        F[i \in 0 .. Len(GENERAL_REGS)] ==
            IF i = 0 THEN << >>
            ELSE IF Sel(i)
                 THEN Append(F[i - 1], GENERAL_REGS[i] \o "="
                                        \o PtrToString(context[GENERAL_REGS[i]]))
                 ELSE F[i - 1]
    IN  F[Len(GENERAL_REGS)]

(* lastRegs left as it was *)
UpdatedRegsKeep(context, lastRegs) == lastRegs

(* lastRegs after the loop: every watched register overwritten *)
UpdatedRegs(context, lastRegs) ==
    LET watched == { GENERAL_REGS[i] : i \in 1 .. Len(GENERAL_REGS) }
    IN  [n \in DOMAIN lastRegs \cup watched |->
            IF n \in watched THEN PtrToString(context[n]) ELSE lastRegs[n]]

(* the returned annotation *)
DiffString(changed) ==
    IF Len(changed) > 0
    THEN " | { " \o C_RED \o Join(changed) \o C_RESET \o " }"
    ELSE ""

getDiffRegisters(context, lastRegs) ==
    [diff |-> DiffString(ChangedRegs(context, lastRegs)),
     lastRegs |-> UpdatedRegs(context, lastRegs)]

-----------------------------------------------------------------------------
(* The native programs of the traced process.  Every program has a caller  *)
(* in the target module (MainAddr) that calls the traced function at       *)
(* TargetBase + TARGET_OFFSET and goes on after it returns.                *)

FuncAddr == TargetBase + TARGET_OFFSET
MainAddr == TargetBase + 256
ExtAddr == LibcBase + 64
AnonAddr == AnonBase

Programs == { "e2e", "loop", "rec", "vec" }

(* The caller.  The caller of the hot loop calls the function a second     *)
(* time, with a trip count just past the threshold.                        *)
MainCode(p) ==
    IF p = "loop" THEN
        (MainAddr :> Ins("bl", "#" \o PtrToString(FuncAddr), << OpImm(FuncAddr) >>))
        @@ (MainAddr + 4 :> Ins("mov", "x2, #11",
                                << OpReg("x2"), OpImm(LOOP_THRESHOLD + 1) >>))
        @@ (MainAddr + 8 :> Ins("bl", "#" \o PtrToString(FuncAddr), << OpImm(FuncAddr) >>))
        @@ (MainAddr + 12 :> Ins("mov", "x3, x0", << OpReg("x3"), OpReg("x0") >>))
    ELSE
        (MainAddr :> Ins("bl", "#" \o PtrToString(FuncAddr), << OpImm(FuncAddr) >>))
        @@ (MainAddr + 4 :> Ins("mov", "x3, x0", << OpReg("x3"), OpReg("x0") >>))

(* where the caller ends *)
HaltAddr(p) == IF p = "loop" THEN MainAddr + 16 ELSE MainAddr + 8

HelperCode ==
    (ExtAddr :> Ins("mov", "x8, #1", << OpReg("x8"), OpImm(1) >>))
    @@ (ExtAddr + 4 :> Ins("ret", "", << >>))
    @@ (AnonAddr :> Ins("mov", "x8, #2", << OpReg("x8"), OpImm(2) >>))
    @@ (AnonAddr + 4 :> Ins("ret", "", << >>))

FuncCode(p) ==
    IF p = "e2e" THEN
        (FuncAddr :> Ins("mov", "x0, #5", << OpReg("x0"), OpImm(5) >>))
        @@ (FuncAddr + 4 :> Ins("add", "x0, x0, x1",
                                << OpReg("x0"), OpReg("x0"), OpReg("x1") >>))
        @@ (FuncAddr + 8 :> Ins("ret", "", << >>))
    ELSE IF p = "loop" THEN
        (FuncAddr :> Ins("mov", "x3, #0", << OpReg("x3"), OpImm(0) >>))
        @@ (FuncAddr + 4 :> Ins("sub", "x2, x2, #1",
                                << OpReg("x2"), OpReg("x2"), OpImm(1) >>))
        @@ (FuncAddr + 8 :> Ins("cbnz", "x2, #" \o PtrToString(FuncAddr + 4),
                                << OpReg("x2"), OpImm(FuncAddr + 4) >>))
        @@ (FuncAddr + 12 :> Ins("bl", "#" \o PtrToString(ExtAddr), << OpImm(ExtAddr) >>))
        @@ (FuncAddr + 16 :> Ins("bl", "#" \o PtrToString(AnonAddr), << OpImm(AnonAddr) >>))
        @@ (FuncAddr + 20 :> Ins("ret", "", << >>))
    ELSE IF p = "rec" THEN
        (FuncAddr :> Ins("sub", "x2, x2, #1",
                         << OpReg("x2"), OpReg("x2"), OpImm(1) >>))
        @@ (FuncAddr + 4 :> Ins("cbz", "x2, #" \o PtrToString(FuncAddr + 16),
                                << OpReg("x2"), OpImm(FuncAddr + 16) >>))
        @@ (FuncAddr + 8 :> Ins("bl", "#" \o PtrToString(FuncAddr), << OpImm(FuncAddr) >>))
        @@ (FuncAddr + 12 :> Ins("add", "x0, x0, x1",
                                 << OpReg("x0"), OpReg("x0"), OpReg("x1") >>))
        @@ (FuncAddr + 16 :> Ins("ret", "", << >>))
    ELSE
        (FuncAddr :> Ins("fmov", "d0, x1", << OpReg("d0"), OpReg("x1") >>))
        @@ (FuncAddr + 4 :> Ins("fmov", "x0, d0", << OpReg("x0"), OpReg("d0") >>))
        @@ (FuncAddr + 8 :> Ins("ret", "", << >>))

Code(p) == MainCode(p) @@ HelperCode @@ FuncCode(p)

(* Instruction.parse(address) *)
InstructionParse(p, address) == Code(p)[address]

EndsBlock(instr) == instr.mnemonic \in { "bl", "cbz", "cbnz", "ret" }

(* The basic block the engine offers to transform when a followed thread   *)
(* reaches `address`: the instructions up to and including the next branch *)
RECURSIVE BlockAt(_, _)
BlockAt(p, address) ==
    IF EndsBlock(Code(p)[address]) THEN << address >>
    ELSE << address >> \o BlockAt(p, address + 4)

(* Process.getModuleByAddress: throws for an address in no module *)
NoModule == [name |-> "", base |-> 0]

getModuleByAddressSafe(address) ==
    IF address >= TargetBase /\ address < TargetBase + TargetSize
    THEN [name |-> TARGET_MODULE, base |-> TargetBase]
    ELSE IF address >= LibcBase /\ address < LibcBase + LibcSize
    THEN [name |-> "libc.so", base |-> LibcBase]
    ELSE NoModule

-----------------------------------------------------------------------------
(* What an instruction does to the thread that executes it *)

IsVecName(name) == \E q \in SimdPrefixes : StartsWith(name, q)

ReadOperand(op, r, v) ==
    IF op.type = "imm" THEN op.num
    ELSE IF IsVecName(op.value) THEN FromLE(SubSeq(v[ParseInt(FirstDigits(op.value, 1))], 1, 4))
    ELSE r[op.value]

Effect(instr, r, v, address) ==
    LET ops == instr.operands
        mn == instr.mnemonic
        next == address + 4
    IN  IF mn = "mov" THEN
            [regs |-> [r EXCEPT ![ops[1].value] = ReadOperand(ops[2], r, v)],
             vregs |-> v, pc |-> next]
        ELSE IF mn = "add" THEN
            [regs |-> [r EXCEPT ![ops[1].value] =
                          ReadOperand(ops[2], r, v) + ReadOperand(ops[3], r, v)],
             vregs |-> v, pc |-> next]
        ELSE IF mn = "sub" THEN
            [regs |-> [r EXCEPT ![ops[1].value] =
                          ReadOperand(ops[2], r, v) - ReadOperand(ops[3], r, v)],
             vregs |-> v, pc |-> next]
        ELSE IF mn = "cbnz" THEN
            [regs |-> r, vregs |-> v,
             pc |-> IF r[ops[1].value] # 0 THEN ops[2].num ELSE next]
        ELSE IF mn = "cbz" THEN
            [regs |-> r, vregs |-> v,
             pc |-> IF r[ops[1].value] = 0 THEN ops[2].num ELSE next]
        ELSE IF mn = "bl" THEN
            [regs |-> [r EXCEPT !["lr"] = next], vregs |-> v, pc |-> ops[1].num]
        ELSE IF mn = "fmov" /\ IsVecName(ops[1].value) THEN
            [regs |-> r,
             vregs |-> [v EXCEPT ![ParseInt(FirstDigits(ops[1].value, 1))] =
                           LEBytes(ReadOperand(ops[2], r, v), 8) \o Fill(0, 8)],
             pc |-> next]
        ELSE IF mn = "fmov" THEN
            [regs |-> [r EXCEPT ![ops[1].value] = ReadOperand(ops[2], r, v)],
             vregs |-> v, pc |-> next]
        ELSE [regs |-> r, vregs |-> v, pc |-> next]

-----------------------------------------------------------------------------
(* lines 205-244: transform.  An instrumented block is a sequence of items: *)
(* "c" (the native callout cm.dump_simd_regs with simdBuffer as user data), *)
(* "js" (the JS callout, a closure over stalkerCtx and module) and "keep"  *)
(* (the instruction itself).                                               *)

Item(op, address, ctx, base) == [op |-> op, address |-> address, ctx |-> ctx, base |-> base]

(* a transform that retains the target module's instructions only *)
InstrumentOneTargetOnly(address, stalkerCtx, bridge) ==
    LET module == getModuleByAddressSafe(address)
    IN  IF module # NoModule /\ module.name = TARGET_MODULE
        THEN (IF bridge THEN << Item("c", address, NoCtx, 0) >> ELSE << >>)
             \o << Item("js", address, stalkerCtx, module.base),
                   Item("keep", address, NoCtx, 0) >>
        ELSE << >>

(* lines 210-242: the body of the do-while for one instruction *)
InstrumentOne(address, stalkerCtx, bridge) ==
    LET module == getModuleByAddressSafe(address)
    IN  (IF module # NoModule /\ module.name = TARGET_MODULE
         THEN (IF bridge THEN << Item("c", address, NoCtx, 0) >> ELSE << >>)
              \o << Item("js", address, stalkerCtx, module.base) >>
         ELSE << >>)
        \o << Item("keep", address, NoCtx, 0) >>

(* lines 205-244; on an empty sequence `instruction.address` throws before *)
(* anything is inserted                                                    *)
RECURSIVE transform(_, _, _)
transform(block, stalkerCtx, bridge) ==
    IF block = << >> THEN << >>
    ELSE InstrumentOne(Head(block), stalkerCtx, bridge)
         \o transform(Tail(block), stalkerCtx, bridge)

-----------------------------------------------------------------------------
(* cmSource lines 27-34: dump_simd_regs copies v0 - v15 into the buffer *)

RECURSIVE CopyVectors(_, _)
CopyVectors(v, i) ==
    IF i = NUM_CAPTURED THEN << >> ELSE v[i] \o CopyVectors(v, i + 1)

dump_simd_regs(v) == CopyVectors(v, 0)

-----------------------------------------------------------------------------
(* The Per-Call Trace State: the fields onEnter sets on `this`.  `hits`    *)
(* and `pendingHit` are history fields: the number of callouts that passed *)
(* the gate, and the number of the one that rendered the pending line.     *)

NoCounters == [k \in {} |-> 0]

FreshAct(tid) ==
    [live |-> TRUE, tid |-> tid, lastRegs |-> NoRegs, lastInstructionLog |-> << >>,
     loopCounter |-> NoCounters, hits |-> 0, pendingHit |-> 0]

BlankAct == [FreshAct(0) EXCEPT !.live = FALSE]

(* line 219: a missing counter reads as undefined and is set to 0 *)
LoopCount(loopCounter, pcKey) ==
    IF pcKey \in DOMAIN loopCounter THEN loopCounter[pcKey] ELSE 0

(* every counter incremented *)
BumpCounterAll(loopCounter, pcKey) ==
    [k \in DOMAIN loopCounter \cup { pcKey } |-> LoopCount(loopCounter, k) + 1]

(* lines 219-220 *)
BumpCounter(loopCounter, pcKey) ==
    [k \in DOMAIN loopCounter \cup { pcKey } |->
        IF k = pcKey THEN LoopCount(loopCounter, pcKey) + 1 ELSE loopCounter[k]]

(* the gate with the threshold itself already suppressed *)
SuppressedAtThreshold(count) == count >= LOOP_THRESHOLD /\ count % SAMPLE_PERIOD # 0

(* line 221: the hit is skipped *)
Suppressed(count) == count > LOOP_THRESHOLD /\ count % SAMPLE_PERIOD # 0

(* lines 230-232 *)
MnemonicColor(mnemonic) ==
    IF StartsWith(mnemonic, "ret") THEN C_RED
    ELSE IF StartsWith(mnemonic, "bl") THEN C_YELLOW
    ELSE C_CYAN

(* lines 226-239 *)
RenderLine(instr, context, buffer, base) ==
    C_GRAY \o "[" \o PtrToString(context["pc"] - base) \o "]" \o C_RESET \o " "
    \o PtrToString(context["pc"]) \o " "
    \o MnemonicColor(instr.mnemonic) \o PadEnd(instr.mnemonic, 8) \o C_RESET \o " "
    \o PadEnd(instr.opStr, 30) \o " "
    \o PadEnd(formatOperandDetails(instr, context, buffer), 40)

(* the flush without the annotation *)
FlushedLineNoDiff(pending, diff) == pending

(* line 224: what the callout prints *)
FlushedLine(pending, diff) == pending \o diff

(* lines 217-240: the JS callout against the captured stalkerCtx.  Yields *)
(* the new trace state and the strings it passed to console.log.          *)
PipelineCallout(st, context, buffer, instr, base) ==
    LET pcKey == PtrToString(context["pc"])
        counters == BumpCounter(st.loopCounter, pcKey)
    IN  IF Suppressed(counters[pcKey])
        THEN [state |-> [st EXCEPT !.loopCounter = counters],
              printed |-> << >>, passed |-> FALSE, diff |-> ""]
        ELSE LET d == getDiffRegisters(context, st.lastRegs)
             IN  [state |-> [st EXCEPT !.loopCounter = counters,
                                       !.lastRegs = d.lastRegs,
                                       !.lastInstructionLog =
                                           << RenderLine(instr, context, buffer, base) >>,
                                       !.hits = st.hits + 1,
                                       !.pendingHit = st.hits + 1],
                  printed |-> IF st.lastInstructionLog # << >>
                              THEN << FlushedLine(st.lastInstructionLog[1], d.diff) >>
                              ELSE << >>,
                  passed |-> TRUE, diff |-> d.diff]

(* line 201 and line 251; the banners' Chinese words are written in ASCII *)
EnterBanner(tid) == C_YELLOW \o "[tid: " \o Dec(tid) \o "] >>>>> enter >>>>>" \o C_RESET

ExitBanner(retval) == C_YELLOW \o "\n<<<<< end (Ret=" \o PtrToString(retval) \o ") <<<<<" \o C_RESET \o "\n"

(* onLeave printing the banner before the pending line *)
LeaveOutputBannerFirst(pending, retval) ==
    << [kind |-> "banner", text |-> ExitBanner(retval)] >>
    \o (IF pending # << >> THEN << [kind |-> "line", text |-> pending[1]] >> ELSE << >>)

(* onLeave printing the banner only *)
LeaveOutputNoFlush(pending, retval) ==
    << [kind |-> "banner", text |-> ExitBanner(retval)] >>

(* onLeave printing the pending line twice *)
LeaveOutputTwice(pending, retval) ==
    (IF pending # << >>
     THEN << [kind |-> "line", text |-> pending[1]], [kind |-> "line", text |-> pending[1]] >>
     ELSE << >>)
    \o << [kind |-> "banner", text |-> ExitBanner(retval)] >>

(* lines 250-251: what onLeave prints *)
LeaveOutput(pending, retval) ==
    (IF pending # << >> THEN << [kind |-> "line", text |-> pending[1]] >> ELSE << >>)
    \o << [kind |-> "banner", text |-> ExitBanner(retval)] >>

(* onLeave stopping the follow before draining *)
LeaveCallsUnfollowFirst(tid) ==
    << [call |-> "unfollow", tid |-> tid], [call |-> "flush", tid |-> tid] >>

(* lines 248-249: the engine calls of onLeave *)
LeaveCalls(tid) ==
    << [call |-> "flush", tid |-> tid], [call |-> "unfollow", tid |-> tid] >>

(* a transform closed over the trace state of the next thread's activation *)
FollowOutcomesShared(t, a) == { << (t % MaxThreads) + 1, 1 >> }

(* lines 203-207: the `this` the transform of this follow captures.  The   *)
(* engine does not define what following a thread it already follows does: *)
(* the installed transform is kept, or replaced by the new one.            *)
FollowOutcomes(t, a) == IF followed[t] THEN { boundCtx[t], a } ELSE { a }

-----------------------------------------------------------------------------
(* The state after the script has loaded (lines 38-47) and trace() has     *)
(* attached (lines 186-194), with every thread about to call the function. *)

(* lines 41-47: both steps succeed; `new CModule` throws; Memory.alloc throws *)
BridgeOutcomes ==
    { [cm |-> TRUE, simdBuffer |-> Fill(0, NUM_CAPTURED * VEC_BYTES)],
      [cm |-> FALSE, simdBuffer |-> << >>],
      [cm |-> TRUE, simdBuffer |-> << >>] }

InitRegs(t, a0, a1, a2) ==
    [n \in RegNames |->
        IF n = "x0" THEN a0
        ELSE IF n = "x1" THEN a1
        ELSE IF n = "x2" THEN a2
        ELSE IF n = "sp" THEN StackTop - 4096 * t
        ELSE IF n = "pc" THEN MainAddr
        ELSE 0]

InitVregs(t) == [i \in 0 .. 31 |-> [j \in 1 .. VEC_BYTES |-> (16 * i + j + 64 * t) % 256]]

NoStep == [kind |-> "init", ctx |-> NoCtx, k |-> 0, count |-> 0, passed |-> FALSE,
           rendered |-> "", expected |-> ""]

(* History of an invocation context: how many activations have used it,   *)
(* what each gate-passing callout of the current one rendered, found       *)
(* changed and saw in the CPU context, and how many callouts ran against   *)
(* it at each program counter.                                             *)
NoHistory == [gen |-> 0, lines |-> << >>, calls |-> [pc \in {} |-> 0]]

InitWith(progs, nthreads, bridges, xs0, xs1, xs2) ==
    /\ prog \in progs
    /\ \E b \in bridges : cm = b.cm /\ simdBuffer = b.simdBuffer
    /\ crashed = FALSE
    /\ \E n \in nthreads :
         \E args \in [1 .. n -> xs0 \X xs1 \X xs2] :
            /\ mode = [t \in Threads |-> IF t <= n THEN "run" ELSE "off"]
            /\ regs = [t \in Threads |->
                         IF t <= n
                         THEN InitRegs(t, args[t][1], args[t][2], args[t][3])
                         ELSE InitRegs(t, 0, 0, 1)]
    /\ vregs = [t \in Threads |-> InitVregs(t)]
    /\ frames = [t \in Threads |-> << >>]
    /\ depth = [t \in Threads |-> 0]
    /\ followed = [t \in Threads |-> FALSE]
    /\ boundCtx = [t \in Threads |-> NoCtx]
    /\ todo = [t \in Threads |-> << >>]
    /\ acts = [a \in ActIds |-> BlankAct]
    /\ out = << >>
    /\ engineLog = [t \in Threads |-> << >>]
    /\ offered = [t \in Threads |-> << >>]
    /\ compiled = [t \in Threads |-> << >>]
    /\ last = [t \in Threads |-> NoStep]
    /\ hist = [a \in ActIds \cup { NoCtx } |-> NoHistory]

-----------------------------------------------------------------------------
(* The engine offers the next basic block of a followed thread to the      *)
(* transform installed for it (lines 205-244).                             *)
Compile(t) ==
    /\ ~crashed /\ mode[t] = "run" /\ followed[t] /\ todo[t] = << >>
    /\ LET block == BlockAt(prog, regs[t]["pc"])
           items == transform(block, boundCtx[t], cm)
       IN  /\ todo' = [todo EXCEPT ![t] = items]
           /\ offered' = [offered EXCEPT ![t] = block]
           /\ compiled' = [compiled EXCEPT ![t] = items]
    /\ last' = [last EXCEPT ![t] = [NoStep EXCEPT !.kind = "compile",
                                                  !.ctx = boundCtx[t]]]
    /\ UNCHANGED << prog, cm, simdBuffer, crashed, regs, vregs, mode, frames, depth,
                    followed, boundCtx, acts, out, engineLog, hist >>

(* The native callout runs (cmSource lines 27-34).  With a null user_data  *)
(* the memcpy writes through address 0 and the process dies.               *)
CCallout(t) ==
    /\ ~crashed /\ mode[t] = "run" /\ todo[t] # << >> /\ Head(todo[t]).op = "c"
    /\ IF simdBuffer = << >>
       THEN /\ crashed' = TRUE
            /\ UNCHANGED << simdBuffer, todo >>
       ELSE /\ simdBuffer' = dump_simd_regs(vregs[t])
            /\ todo' = [todo EXCEPT ![t] = Tail(todo[t])]
            /\ UNCHANGED crashed
    /\ last' = [last EXCEPT ![t] = [NoStep EXCEPT !.kind = "capture"]]
    /\ UNCHANGED << prog, cm, regs, vregs, mode, frames, depth, followed, boundCtx,
                    acts, out, engineLog, offered, compiled, hist >>

(* The JS callout runs (lines 217-240) *)
JSCallout(t) ==
    /\ ~crashed /\ mode[t] = "run" /\ todo[t] # << >> /\ Head(todo[t]).op = "js"
    /\ LET item == Head(todo[t])
           a == item.ctx
           context == regs[t]
           pc == context["pc"]
           instr == InstructionParse(prog, pc)
           res == PipelineCallout(acts[a], context, simdBuffer, instr, item.base)
           k == (IF pc \in DOMAIN hist[a].calls THEN hist[a].calls[pc] ELSE 0) + 1
           own == IF simdBuffer = << >> THEN << >> ELSE dump_simd_regs(vregs[t])
       IN  /\ acts' = [acts EXCEPT ![a] = res.state]
           /\ out' = out \o [i \in 1 .. Len(res.printed) |->
                                [kind |-> "line", text |-> res.printed[i], ctx |-> a,
                                 gen |-> hist[a].gen, via |-> "callout",
                                 hit |-> acts[a].pendingHit, at |-> res.state.hits]]
           /\ hist' = [hist EXCEPT
                 ![a].calls = [q \in DOMAIN hist[a].calls \cup { pc } |->
                                  IF q = pc THEN k ELSE hist[a].calls[q]],
                 ![a].lines = IF res.passed
                              THEN Append(hist[a].lines,
                                     [line |-> RenderLine(instr, context, simdBuffer,
                                                          item.base),
                                      changed |-> ChangedRegs(context, acts[a].lastRegs),
                                      seen |-> context])
                              ELSE hist[a].lines]
           /\ last' = [last EXCEPT ![t] =
                 [kind |-> "callout", ctx |-> a, k |-> k,
                  count |-> res.state.loopCounter[PtrToString(pc)],
                  passed |-> res.passed,
                  rendered |-> IF res.passed
                               THEN formatOperandDetails(instr, context, simdBuffer)
                               ELSE "",
                  expected |-> IF res.passed
                               THEN formatOperandDetails(instr, context, own)
                               ELSE ""]]
    /\ todo' = [todo EXCEPT ![t] = Tail(todo[t])]
    /\ UNCHANGED << prog, cm, simdBuffer, crashed, regs, vregs, mode, frames, depth,
                    followed, boundCtx, engineLog, offered, compiled >>

(* The thread executes its next instruction: the kept one of the           *)
(* instrumented block when followed, the original one otherwise.  A call   *)
(* to the traced function's entry reaches the Interceptor hook, and the    *)
(* return from it reaches the hook's onLeave.                              *)
Exec(t) ==
    /\ ~crashed /\ mode[t] = "run"
    /\ \/ followed[t] /\ todo[t] # << >> /\ Head(todo[t]).op = "keep"
       \/ ~followed[t] /\ todo[t] = << >>
    /\ LET address == regs[t]["pc"]
           instr == Code(prog)[address]
           eff == Effect(instr, regs[t], vregs[t], address)
           isRet == instr.mnemonic = "ret"
           isCall == instr.mnemonic = "bl"
           top == frames[t][Len(frames[t])]
           target == IF isRet THEN top.ret ELSE eff.pc
       IN  /\ regs' = [regs EXCEPT ![t] = [eff.regs EXCEPT !["pc"] = target]]
           /\ vregs' = [vregs EXCEPT ![t] = eff.vregs]
           /\ frames' = [frames EXCEPT ![t] =
                 IF isRet THEN SubSeq(frames[t], 1, Len(frames[t]) - 1)
                 ELSE IF isCall
                      THEN Append(frames[t], [ret |-> address + 4,
                                              traced |-> target = FuncAddr])
                      ELSE frames[t]]
           /\ mode' = [mode EXCEPT ![t] =
                 IF isRet /\ top.traced THEN "leaving"
                 ELSE IF isCall /\ target = FuncAddr THEN "entering"
                 ELSE IF target = HaltAddr(prog) THEN "done"
                 ELSE "run"]
    /\ todo' = [todo EXCEPT ![t] = IF todo[t] = << >> THEN << >> ELSE Tail(todo[t])]
    /\ last' = [last EXCEPT ![t] = [NoStep EXCEPT !.kind = "exec"]]
    /\ UNCHANGED << prog, cm, simdBuffer, crashed, depth, followed, boundCtx, acts,
                    out, engineLog, offered, compiled, hist >>

(* lines 195-246: onEnter *)
OnEnter(t) ==
    /\ ~crashed /\ mode[t] = "entering"
    /\ LET a == << t, depth[t] + 1 >>
       IN  /\ acts' = [acts EXCEPT ![a] = FreshAct(t)]
           /\ hist' = [hist EXCEPT ![a] = [NoHistory EXCEPT !.gen = hist[a].gen + 1]]
           /\ out' = Append(out, [kind |-> "banner", text |-> EnterBanner(t), ctx |-> a,
                                  gen |-> hist[a].gen + 1, via |-> "enter",
                                  hit |-> 0, at |-> 0])
           /\ engineLog' = [engineLog EXCEPT ![t] =
                                Append(engineLog[t], [call |-> "follow", tid |-> t])]
           /\ followed' = [followed EXCEPT ![t] = TRUE]
           /\ \E c \in FollowOutcomes(t, a) : boundCtx' = [boundCtx EXCEPT ![t] = c]
           /\ last' = [last EXCEPT ![t] = [NoStep EXCEPT !.kind = "enter", !.ctx = a]]
    /\ depth' = [depth EXCEPT ![t] = depth[t] + 1]
    /\ mode' = [mode EXCEPT ![t] = "run"]
    /\ UNCHANGED << prog, cm, simdBuffer, crashed, regs, vregs, frames, todo,
                    offered, compiled >>

(* lines 247-252: onLeave; afterwards the invocation context is garbage *)
OnLeave(t) ==
    /\ ~crashed /\ mode[t] = "leaving"
    /\ LET a == << t, depth[t] >>
           st == acts[a]
           calls == LeaveCalls(st.tid)
           printed == LeaveOutput(st.lastInstructionLog, regs[t]["x0"])
           Unfollowed(u) == \E i \in 1 .. Len(calls) :
                                calls[i].call = "unfollow" /\ calls[i].tid = u
       IN  /\ engineLog' = [engineLog EXCEPT ![t] = engineLog[t] \o calls]
           /\ followed' = [u \in Threads |-> IF Unfollowed(u) THEN FALSE ELSE followed[u]]
           /\ boundCtx' = [u \in Threads |-> IF Unfollowed(u) THEN NoCtx ELSE boundCtx[u]]
           /\ out' = out \o [i \in 1 .. Len(printed) |->
                                [kind |-> printed[i].kind, text |-> printed[i].text,
                                 ctx |-> a, gen |-> hist[a].gen, via |-> "leave",
                                 hit |-> IF printed[i].kind = "line"
                                         THEN st.pendingHit ELSE 0,
                                 at |-> 0]]
           /\ acts' = [acts EXCEPT ![a].live = FALSE]
           /\ last' = [last EXCEPT ![t] = [NoStep EXCEPT !.kind = "leave", !.ctx = a]]
    /\ depth' = [depth EXCEPT ![t] = depth[t] - 1]
    /\ mode' = [mode EXCEPT ![t] = "run"]
    /\ UNCHANGED << prog, cm, simdBuffer, crashed, regs, vregs, frames, todo,
                    offered, compiled, hist >>

Next ==
    \E t \in Threads :
        \/ Compile(t)
        \/ CCallout(t)
        \/ JSCallout(t)
        \/ Exec(t)
        \/ OnEnter(t)
        \/ OnLeave(t)

-----------------------------------------------------------------------------
(* Specifications.  Spec runs every program on one thread; the others fix  *)
(* the program a group of claims is about.                                 *)

Args == 0 .. MaxArg

Init == InitWith(Programs, { 1 }, BridgeOutcomes, Args, Args, 1 .. MaxDepth)

Spec == Init /\ [][Next]_vars

(* The hot loop on one thread, with trip counts around the threshold and  *)
(* up to the first sample past it                                         *)
InitLoop ==
    InitWith({ "loop" }, { 1 }, BridgeOutcomes, { 0 }, { 0 },
             { 1, LOOP_THRESHOLD, LOOP_THRESHOLD + 1, LoopIters })

SpecLoop == InitLoop /\ [][Next]_vars

(* mov x0,#5; add x0,x0,x1; ret on one thread *)
InitE2E ==
    InitWith({ "e2e" }, { 1 }, BridgeOutcomes, Args \cup { 5 }, Args \cup { 5 }, { 0 })

SpecE2E == InitE2E /\ [][Next]_vars

(* The self-recursive function on one thread *)
InitRec == InitWith({ "rec" }, { 1 }, BridgeOutcomes, Args, Args, 1 .. MaxDepth)

SpecRec == InitRec /\ [][Next]_vars

(* Two threads inside the traced function at once *)
InitThreads ==
    InitWith({ "vec" }, { 2 }, BridgeOutcomes, { 0 }, { 1, MaxArg }, { 0 })

SpecThreads == InitThreads /\ [][Next]_vars

-----------------------------------------------------------------------------
(* The helper functions called on their own: a context and a bridge state  *)
(* are drawn by InitCalls, the capture may run once, and then one helper   *)
(* is called with one argument; the call is recorded in last[1].  The      *)
(* helpers keep no state, so one call per run covers every call.           *)

Window == 16         \* values looked at on each side of an edge

(* every register name the disassembler can hand to getRegisterValue *)
RegisterNames ==
    { "sp", "wzr", "xzr", "fp", "lr", "pc" }
    \cup { "w" \o Dec(i) : i \in 0 .. 30 }
    \cup { "x" \o Dec(i) : i \in 0 .. 30 }
    \cup { q \o Dec(i) : q \in SimdPrefixes, i \in 0 .. 31 }

(* values around zero and around the floor, and addresses of the layout *)
PointerSamples ==
    (0 .. Window)
    \cup (POINTER_FLOOR - Window .. POINTER_FLOOR + Window)
    \cup { OkAddr, OkAddr + 4, HelloAddr, PtrAddr, OkTextAddr, TailAddr,
           TailAddr + 8, AnonBase, StackTop - 8 }

(* base addresses whose word is unreadable (0, AnonBase) or is a pointer *)
BaseSamples == { 0, PtrAddr, TailAddr, AnonBase }

InstructionSamples ==
    { Ins("ldr", "x1, [x0]", << OpReg("x1"), OpMem("x0", 0) >>),
      Ins("ldr", "x1, [x0, #128]", << OpReg("x1"), OpMem("x0", 128) >>),
      Ins("ldr", "q3, [x29]", << OpReg("q3"), OpMem("x29", 0) >>),
      Ins("ld1", "{v0.16b}, [x0], x1", << OpReg("v0"), OpMem("x0", 0), OpReg("x1") >>),
      Ins("ld1", "{v0.16b}, [x30], #16", << OpReg("v0"), OpMem("x30", 0), OpImm(16) >>),
      Ins("mov", "x1, sp", << OpReg("x1"), OpReg("sp") >>) }

(* `after` is the step before the call: "init" or "dump_simd_regs" *)
Call(fn, arg, ret) == [kind |-> fn, arg |-> arg, ret |-> ret, after |-> last[1].kind]

InitCalls ==
    InitWith({ "vec" }, { 1 }, BridgeOutcomes, BaseSamples, { 0, OkAddr, HelloAddr }, { 0 })

(* cmSource lines 27-34, on thread 1's context *)
CallCapture ==
    /\ last[1].kind = "init"
    /\ cm /\ simdBuffer # << >>
    /\ simdBuffer' = dump_simd_regs(vregs[1])
    /\ last' = [last EXCEPT ![1] = Call("dump_simd_regs", "", "")]
    /\ UNCHANGED << prog, cm, crashed, regs, vregs, mode, frames, depth, followed,
                    boundCtx, todo, acts, out, engineLog, offered, compiled, hist >>

Returns(call) ==
    /\ last[1].kind \in { "init", "dump_simd_regs" }
    /\ last' = [last EXCEPT ![1] = call]
    /\ UNCHANGED << prog, cm, simdBuffer, crashed, regs, vregs, mode, frames, depth,
                    followed, boundCtx, todo, acts, out, engineLog, offered,
                    compiled, hist >>

CallGetRegisterValue ==
    \E regName \in RegisterNames :
        Returns(Call("getRegisterValue", regName,
                     getRegisterValue(regs[1], simdBuffer, regName)))

CallIsSafePointer ==
    \E ptrVal \in PointerSamples :
        Returns(Call("isSafePointer", ptrVal, isSafePointer(ptrVal)))

CallInspectMemory ==
    \E ptrVal \in PointerSamples :
        Returns(Call("inspectMemory", ptrVal, inspectMemory(ptrVal)))

CallFormatOperandDetails ==
    \E instruction \in InstructionSamples :
        Returns(Call("formatOperandDetails", instruction,
                     formatOperandDetails(instruction, regs[1], simdBuffer)))

NextCalls ==
    \/ CallCapture
    \/ CallGetRegisterValue
    \/ CallIsSafePointer
    \/ CallInspectMemory
    \/ CallFormatOperandDetails

SpecCalls == InitCalls /\ [][NextCalls]_vars

-----------------------------------------------------------------------------
(* Properties *)

Callouts == { t \in Threads : last[t].kind = "callout" }

(* C1: within one activation the k-th callout at a program counter (k      *)
(* counted from 1 since function entry) is rendered iff k <= 10 or k is a  *)
(* multiple of 100: hits 1..10 render, 11 is suppressed, 100 renders, 101  *)
(* is suppressed.                                                          *)
C1_LoopGate ==
    \A t \in Callouts :
        /\ last[t].passed <=> (last[t].k <= 10 \/ last[t].k % 100 = 0)
        /\ last[t].k \in 1 .. 10 => last[t].passed
        /\ last[t].k = 11 => ~last[t].passed
        /\ last[t].k = 100 => last[t].passed
        /\ last[t].k = 101 => ~last[t].passed

(* the 101st hit of the loop body has just been suppressed *)
C1_Witness101 ==
    \E t \in Callouts : last[t].k = 101 /\ ~last[t].passed /\ hist[last[t].ctx].gen = 1

(* C2: the line rendered by a gate-passing hit is not printed during its   *)
(* own callout; it stays pending and is printed by the next gate-passing   *)
(* callout of the same activation, followed by the diff that callout       *)
(* computed, before that callout's own line replaces it.                   *)
C2_Deferral ==
    /\ \A i \in DOMAIN out :
          out[i].via = "callout" =>
             /\ out[i].kind = "line"
             /\ out[i].hit >= 1
             /\ out[i].at = out[i].hit + 1
             /\ out[i].gen = hist[out[i].ctx].gen =>
                   /\ out[i].at <= Len(hist[out[i].ctx].lines)
                   /\ out[i].text =
                         hist[out[i].ctx].lines[out[i].hit].line
                         \o DiffString(hist[out[i].ctx].lines[out[i].at].changed)
    /\ \A t \in Callouts :
          last[t].passed =>
             LET a == last[t].ctx
                 n == Len(hist[a].lines)
             IN  /\ acts[a].lastInstructionLog = << hist[a].lines[n].line >>
                 /\ \A i \in DOMAIN out :
                       (out[i].ctx = a /\ out[i].gen = hist[a].gen /\ out[i].kind = "line")
                          => out[i].hit < n
                 /\ n > 1 =>
                       /\ out # << >>
                       /\ out[Len(out)].ctx = a
                       /\ out[Len(out)].hit = n - 1
                       /\ out[Len(out)].via = "callout"

(* a callout has just printed the previous line with a non-empty diff *)
C2_WitnessFlushed ==
    \E t \in Callouts :
        /\ last[t].passed
        /\ Len(hist[last[t].ctx].lines) >= 2
        /\ out[Len(out)].via = "callout"
        /\ hist[last[t].ctx].lines[Len(hist[last[t].ctx].lines)].changed # << >>

(* the activations that have printed their exit banner *)
ExitBanners == { i \in DOMAIN out : out[i].via = "leave" /\ out[i].kind = "banner" }

(* C3: on return a pending line is printed exactly as rendered, with no    *)
(* diff, just before the exit banner; an activation without a gate-passing *)
(* hit prints nothing but its banners.                                     *)
C3_ExitFlush ==
    /\ \A i \in DOMAIN out :
          (out[i].via = "leave" /\ out[i].kind = "line") =>
             /\ i + 1 \in ExitBanners
             /\ out[i + 1].ctx = out[i].ctx
             /\ out[i].gen = hist[out[i].ctx].gen =>
                   /\ out[i].hit = Len(hist[out[i].ctx].lines)
                   /\ out[i].text = hist[out[i].ctx].lines[out[i].hit].line
    /\ \A i \in ExitBanners :
          out[i].gen = hist[out[i].ctx].gen =>
             IF hist[out[i].ctx].lines # << >>
             THEN /\ i > 1
                  /\ out[i - 1].via = "leave"
                  /\ out[i - 1].kind = "line"
                  /\ out[i - 1].ctx = out[i].ctx
             ELSE \A j \in DOMAIN out :
                     (out[j].ctx = out[i].ctx /\ out[j].gen = out[i].gen)
                        => out[j].kind = "banner"

(* an activation that rendered lines has returned, and so has one that     *)
(* rendered none                                                           *)
C3_WitnessExit ==
    /\ \E i \in ExitBanners :
          out[i].gen = hist[out[i].ctx].gen /\ hist[out[i].ctx].lines # << >>
    /\ \E i \in ExitBanners :
          out[i].gen = hist[out[i].ctx].gen /\ hist[out[i].ctx].lines = << >>

(* the instruction lines an activation printed before its exit banner at  *)
(* position i of the output                                                *)
LinesBefore(i) ==
    { j \in 1 .. i : /\ out[j].kind = "line"
                     /\ out[j].ctx = out[i].ctx
                     /\ out[j].gen = out[i].gen }

(* C4 as claimed: an activation that executes mov x0,#5; add x0,x0,x1; ret *)
(* prints exactly two instruction lines between its banners.               *)
C4_TwoLines ==
    \A i \in ExitBanners : prog = "e2e" => Cardinality(LinesBefore(i)) = 2

(* C4 as amended: it prints exactly three: the mov line and the add line,  *)
(* each by the next instruction's callout, and the ret line by onLeave     *)
(* right before the exit banner.                                           *)
C4_ThreeLines ==
    \A i \in ExitBanners :
        prog = "e2e" =>
            /\ LinesBefore(i) = { i - 3, i - 2, i - 1 }
            /\ out[i - 4].kind = "banner" /\ out[i - 4].via = "enter"
            /\ out[i - 3].via = "callout" /\ out[i - 3].hit = 1
            /\ out[i - 2].via = "callout" /\ out[i - 2].hit = 2
            /\ out[i - 1].via = "leave" /\ out[i - 1].hit = 3

(* the three-instruction function has returned *)
C4_WitnessReturned == prog = "e2e" /\ ExitBanners # {} /\ mode[1] = "done"

(* the CPU context of the thread an output entry belongs to *)
RegsOf(i) == regs[out[i].ctx[1]]

(* C5 as claimed: the first instruction line printed carries a diff whose  *)
(* x0 entry shows x0 as the add left it.                                   *)
C5_FirstDiffShowsAdd ==
    \A i \in ExitBanners :
        prog = "e2e" =>
            LET shown == hist[out[i].ctx].lines[2].changed
            IN  \E n \in DOMAIN shown :
                    shown[n] = "x0=" \o PtrToString(RegsOf(i)["x0"])

(* C5 as amended: the first line printed (the mov line) carries the diff   *)
(* computed by the add's callout, whose only entry is x0 = 5, the value    *)
(* the mov wrote (no entry when x0 was 5 on entry); the value the add      *)
(* produced is the only entry of the diff of the second line printed (the  *)
(* add line), absent when x1 = 0.                                          *)
C5_DiffPlacement ==
    \A i \in ExitBanners :
        prog = "e2e" =>
            LET h == hist[out[i].ctx].lines
                wasFive == h[1].changed[1] = "x0=0x5"
            IN  /\ out[i - 3].text =
                      h[1].line
                      \o (IF wasFive THEN "" ELSE DiffString(<< "x0=0x5" >>))
                /\ out[i - 2].text =
                      h[2].line
                      \o (IF RegsOf(i)["x1"] = 0 THEN ""
                          ELSE DiffString(<< "x0=" \o PtrToString(5 + RegsOf(i)["x1"]) >>))
                /\ RegsOf(i)["x0"] = 5 + RegsOf(i)["x1"]

(* the function has returned after an add that changed x0, entered with   *)
(* x0 other than 5                                                         *)
C5_WitnessAddChanged ==
    /\ prog = "e2e" /\ ExitBanners # {} /\ mode[1] = "done"
    /\ regs[1]["x1"] = 2
    /\ hist[<< 1, 1 >>].lines[1].changed[1] = "x0=0x0"

-----------------------------------------------------------------------------
(* Recursion and threads *)

(* the innermost activation of thread t *)
Innermost(t) == << t, depth[t] >>

(* C6 as claimed: a nested activation starts with a fresh trace state,     *)
(* every callout that runs while it is the innermost activation works on   *)
(* its state, and a thread that has left a nested activation and is still  *)
(* inside the outer one is still followed, on behalf of the outer one.     *)
C6_RecursionIsolation ==
    \A t \in Threads :
        /\ last[t].kind = "enter" => acts[Innermost(t)] = FreshAct(t)
        /\ last[t].kind = "callout" => last[t].ctx = Innermost(t)
        /\ (depth[t] >= 1 /\ mode[t] \in { "run", "leaving" }) =>
               /\ followed[t]
               /\ acts[Innermost(t)].live

(* the vector bytes thread t's pending render will read: the buffer as it  *)
(* is, against what t's own capture put there                              *)
AwaitsRender(t) ==
    /\ todo[t] # << >> /\ Head(todo[t]).op = "js"
    /\ simdBuffer # << >>

(* C7 as claimed: between a thread's capture and its render of the same    *)
(* instruction the buffer holds the bytes captured from that thread, and   *)
(* the operand details rendered are those of its own vector registers.     *)
C7_CaptureIntegrity ==
    /\ \A t \in Threads : AwaitsRender(t) => simdBuffer = dump_simd_regs(vregs[t])
    /\ \A t \in Callouts : last[t].passed => last[t].rendered = last[t].expected

(* thread u took the step *)
Stepped(u) == todo'[u] # todo[u] \/ mode'[u] # mode[u] \/ depth'[u] # depth[u]

(* every callout placed for a thread works on an activation of that thread *)
OwnCallouts ==
    \A t \in Threads :
        /\ boundCtx[t] # NoCtx => boundCtx[t][1] = t
        /\ \A i \in DOMAIN todo[t] : todo[t][i].op = "js" => todo[t][i].ctx[1] = t
        /\ last[t].kind = "callout" => last[t].ctx[1] = t

(* C8: with several threads inside the traced function, every callout a    *)
(* thread runs works on a trace state of that thread's own activation, and *)
(* a step changes the last-register map, hit counters or pending line of   *)
(* an activation only when it is a step of that activation's thread.       *)
C8_ThreadIsolation ==
    /\ []OwnCallouts
    /\ [][\A a \in ActIds :
             acts'[a] # acts[a] =>
                 /\ Stepped(a[1])
                 /\ \A u \in Threads \ { a[1] } : ~Stepped(u)]_vars

(* both threads are inside the function and each has rendered a line *)
C8_WitnessBothInside ==
    /\ \A t \in 1 .. 2 : depth[t] = 1 /\ acts[<< t, 1 >>].hits >= 1
    /\ Callouts # {}

-----------------------------------------------------------------------------
(* The transform's output *)

RECURSIVE KeptAddresses(_)
KeptAddresses(items) ==
    IF items = << >> THEN << >>
    ELSE (IF Head(items).op = "keep" THEN << Head(items).address >> ELSE << >>)
         \o KeptAddresses(Tail(items))

InTargetModule(address) == address >= TargetBase /\ address < TargetBase + TargetSize

(* what precedes the keep at position i of an instrumented block, back to *)
(* the previous keep                                                       *)
Before(items, i) ==
    LET prev == { j \in 1 .. i - 1 : items[j].op = "keep" }
        from == IF prev = {} THEN 1
                ELSE (CHOOSE j \in prev : \A q \in prev : q <= j) + 1
    IN  SubSeq(items, from, i - 1)

(* C9: the instrumented block retains each offered instruction once, in    *)
(* the offered order; an instruction of the target module is preceded by   *)
(* the capture step (when the native module was compiled) and then the     *)
(* pipeline callout bound to the follow's trace state; any other           *)
(* instruction is preceded by no callout.                                  *)
C9_Policy ==
    \A t \in Threads :
        LET items == compiled[t]
        IN  /\ KeptAddresses(items) = offered[t]
            /\ items # << >> => items[Len(items)].op = "keep"
            /\ \A i \in DOMAIN items :
                 items[i].op = "keep" =>
                    LET pre == Before(items, i)
                        ops == [j \in DOMAIN pre |-> pre[j].op]
                    IN  /\ \A j \in DOMAIN pre : pre[j].address = items[i].address
                        /\ ops = IF ~InTargetModule(items[i].address) THEN << >>
                                 ELSE IF cm THEN << "c", "js" >>
                                 ELSE << "js" >>
                        /\ \A j \in DOMAIN pre :
                             pre[j].op = "js" => pre[j].ctx \in ActIds /\ pre[j].ctx[1] = t

(* a block outside every module has been offered by a thread whose         *)
(* activation has already printed lines, with the bridge initialised       *)
C9_WitnessForeignBlock ==
    /\ cm /\ simdBuffer # << >>
    /\ offered[1] # << >> /\ offered[1][1] = AnonAddr
    /\ \E i \in DOMAIN out : out[i].kind = "line"

-----------------------------------------------------------------------------
(* Exit *)

(* C10: onLeave calls the engine's flush for the thread and then unfollow, *)
(* before the activation's trace state is dropped, and no callout runs     *)
(* against, or remains queued for, a trace state whose onLeave has run.    *)
C10_ExitOrdering ==
    \A t \in Threads :
        /\ last[t].kind = "leave" =>
              LET n == Len(engineLog[t])
              IN  /\ n >= 3
                  /\ engineLog[t][n - 1] = [call |-> "flush", tid |-> t]
                  /\ engineLog[t][n] = [call |-> "unfollow", tid |-> t]
                  /\ ~acts[last[t].ctx].live
        /\ last[t].kind = "callout" => acts[last[t].ctx].live
        /\ \A i \in DOMAIN todo[t] : todo[t][i].op = "js" => acts[todo[t][i].ctx].live
        /\ boundCtx[t] # NoCtx => acts[boundCtx[t]].live

(* a nested activation has just exited, after its callouts rendered *)
C10_WitnessNestedExit ==
    /\ last[1].kind = "leave" /\ last[1].ctx = << 1, 2 >>
    /\ depth[1] = 1
    /\ \E i \in DOMAIN out : out[i].via = "callout"

-----------------------------------------------------------------------------
(* The helpers *)

Called(fn) == last[1].kind = fn

(* a register name of a vector class: a prefix letter and an index *)
VectorNames == { q \o Dec(i) : q \in SimdPrefixes, i \in 0 .. 31 }

Markers == { "(No-CModule)", "(SIMD-OOB)", "?" }

(* C11: for every register name, in every bridge state, getRegisterValue   *)
(* returns a machine word, a string (a marker or a 128-bit hex literal) or *)
(* undefined, and never throws; only vector-class names get a string, only *)
(* x29, x30, w29 and w30 are undefined, and sp is the context's sp field.  *)
C11_LookupTotal ==
    Called("getRegisterValue") =>
        LET regName == last[1].arg
            ret == last[1].ret
        IN  /\ ret.t \in { "ptr", "str", "undef" }
            /\ regName = "sp" => ret = Ptr(regs[1]["sp"])
            /\ ret.t = "str" <=> regName \in VectorNames
            /\ ret.t = "str" =>
                   \/ ret.s \in Markers
                   \/ Len(ret.s) = 2 + 2 * VEC_BYTES /\ StartsWith(ret.s, "0x")
            /\ ret.t = "undef" <=> regName \in { "x29", "x30", "w29", "w30" }

(* sp has been looked up with the bridge down *)
C11_WitnessSp ==
    Called("getRegisterValue") /\ last[1].arg = "sp" /\ simdBuffer = << >> /\ ~cm

(* the display of sixteen bytes b[1] .. b[16]: b[16] first *)
Display(b) ==
    "0x" \o ByteHex(b[16]) \o ByteHex(b[15]) \o ByteHex(b[14]) \o ByteHex(b[13])
         \o ByteHex(b[12]) \o ByteHex(b[11]) \o ByteHex(b[10]) \o ByteHex(b[9])
         \o ByteHex(b[8]) \o ByteHex(b[7]) \o ByteHex(b[6]) \o ByteHex(b[5])
         \o ByteHex(b[4]) \o ByteHex(b[3]) \o ByteHex(b[2]) \o ByteHex(b[1])

(* C12: after a capture, the lookup of a vector-class name with index      *)
(* i <= 15 returns the hex literal of the sixteen bytes of the thread's    *)
(* register v_i, last byte first; with i > 15 it returns the out-of-range  *)
(* marker.                                                                 *)
C12_VectorRoundTrip ==
    (Called("getRegisterValue") /\ last[1].after = "dump_simd_regs") =>
        \A q \in SimdPrefixes, i \in 0 .. 31 :
            last[1].arg = q \o Dec(i) =>
                last[1].ret = IF i <= 15 THEN Str(Display(vregs[1][i]))
                              ELSE Str("(SIMD-OOB)")

(* the last captured register has been looked up after a capture *)
C12_WitnessLastCaptured ==
    /\ Called("getRegisterValue") /\ last[1].after = "dump_simd_regs"
    /\ last[1].arg = "d15"
    /\ last[1].ret.s # Display(vregs[1][0])

(* the bridge is down: the module did not compile or the buffer is null *)
BridgeDown == ~cm \/ simdBuffer = << >>

(* C13 as claimed: when either step of the bridge's initialisation failed  *)
(* no capture step is ever placed in an instrumented block, and tracing    *)
(* goes on (the process does not die).                                     *)
C13_SafeDegradation ==
    BridgeDown =>
        /\ ~crashed
        /\ \A t \in Threads :
             \A i \in DOMAIN compiled[t] : compiled[t][i].op # "c"

(* C14: isSafePointer is false for zero, for every value below 0x10000 and *)
(* for every value that is not a multiple of 8, and true for every other   *)
(* value.                                                                  *)
C14_SafePointer ==
    Called("isSafePointer") =>
        LET v == last[1].arg
        IN  /\ v = 0 => last[1].ret = FALSE
            /\ v < 65536 => last[1].ret = FALSE
            /\ v % 8 # 0 => last[1].ret = FALSE
            /\ (v # 0 /\ v >= 65536 /\ v % 8 = 0) => last[1].ret = TRUE

(* the floor itself has been accepted *)
C14_WitnessFloor ==
    Called("isSafePointer") /\ last[1].arg = POINTER_FLOOR /\ last[1].ret = TRUE

Quoted(text) == C_GREEN \o " => \"" \o text \o "\"" \o C_RESET

(* C15 as claimed: inspect of a pointer to 'O', 'K', 0 and arbitrary bytes *)
(* returns the quoted-string annotation "OK".                              *)
C15_OkQuoted ==
    (Called("inspectMemory") /\ last[1].arg \in { OkAddr, OkTextAddr }) =>
        last[1].ret = Quoted("OK")

(* C15 as amended: it returns the empty annotation (a run must be longer   *)
(* than 2, and the word at the address is not an aligned pointer); a run   *)
(* of three or more printable bytes is quoted, up to its terminator.       *)
C15_OkTooShort ==
    Called("inspectMemory") =>
        /\ last[1].arg \in { OkAddr, OkTextAddr } => last[1].ret = ""
        /\ last[1].arg = HelloAddr => last[1].ret = Quoted("Hello")

(* "OK" followed by printable bytes has been inspected *)
C15_WitnessOk == Called("inspectMemory") /\ last[1].arg = OkTextAddr

(* C16 as claimed: when the 32-byte peek of a safe pointer fails, inspect  *)
(* returns the empty annotation.                                           *)
C16_PeekFailureEmpty ==
    (Called("inspectMemory") /\ isSafePointer(last[1].arg)
                             /\ ~Readable(last[1].arg, STR_PEEK_LEN)) =>
        last[1].ret = ""

(* the memory operand as C17 describes it *)
ClaimedMemOperand(op, context, buffer) ==
    LET baseValue == getRegisterValue(context, buffer, op.base)
        resolved == baseValue.t = "ptr"
        address == IF resolved THEN baseValue.v + op.disp ELSE 0
        loaded == resolved /\ Readable(address, 8)
    IN  "[" \o op.base \o "+" \o Dec(op.disp) \o "]="
        \o (IF loaded
            THEN PtrToString(address) \o " " \o C_BLUE \o "[val="
                 \o PtrToString(ReadPointer(address)) \o "]" \o C_RESET
                 \o inspectMemory(ReadPointer(address))
            ELSE "N/A")

(* C17 as claimed: a memory operand whose base does not resolve, or whose  *)
(* one-word load fails, is printed as [base+disp]=N/A, and the other       *)
(* operands are formatted as usual.                                        *)
C17_MemDegradation ==
    Called("formatOperandDetails") =>
        LET ops == last[1].arg.operands
            parts == [i \in DOMAIN ops |->
                        IF ops[i].type = "mem"
                        THEN ClaimedMemOperand(ops[i], regs[1], simdBuffer)
                        ELSE formatOperand(ops[i], regs[1], simdBuffer)]
        IN  last[1].ret = "(" \o Join(parts) \o ")"

-----------------------------------------------------------------------------
(* The pipeline's state *)

(* thread t has just run a callout that failed the gate *)
SuppressedStep(t) ==
    /\ todo'[t] # todo[t]
    /\ last'[t].kind = "callout" /\ ~last'[t].passed

(* C18: a callout that fails the gate prints nothing and leaves the        *)
(* pending line, the last-register map and every other activation as they  *)
(* were; of the hit counters it changes only the one of its own program    *)
(* counter, by one.                                                        *)
C18_SuppressedFrame ==
    [][\A t \in Threads :
          SuppressedStep(t) =>
              LET a == last'[t].ctx
                  pcKey == PtrToString(regs[t]["pc"])
                  before == acts[a].loopCounter
                  after == acts'[a].loopCounter
              IN  /\ out' = out
                  /\ acts'[a].lastInstructionLog = acts[a].lastInstructionLog
                  /\ acts'[a].lastRegs = acts[a].lastRegs
                  /\ DOMAIN after = DOMAIN before \cup { pcKey }
                  /\ \A k \in DOMAIN before \ { pcKey } : after[k] = before[k]
                  /\ after[pcKey] = before[pcKey] + 1
                  /\ \A b \in ActIds \ { a } : acts'[b] = acts[b]]_vars

(* the eleventh hit of a program counter has been suppressed while a line  *)
(* was pending and other program counters had counters                     *)
C18_WitnessEleventh ==
    /\ last[1].kind = "callout" /\ ~last[1].passed
    /\ last[1].count = LOOP_THRESHOLD + 1
    /\ acts[last[1].ctx].lastInstructionLog # << >>
    /\ Cardinality(DOMAIN acts[last[1].ctx].loopCounter) >= 3

Watched == { GENERAL_REGS[i] : i \in DOMAIN GENERAL_REGS }

(* the "name=value" pairs of the watched registers that differ between two *)
(* CPU contexts, in watch-list order, with the values of the later one     *)
Differing(earlier, later) ==
    LET Differs(n) == earlier[n] # later[n]
        names == SelectSeq(GENERAL_REGS, Differs)
    IN  [i \in DOMAIN names |-> names[i] \o "=" \o PtrToString(later[names[i]])]

(* the lines a callout printed for the activation now using its context *)
FlushedByCallout ==
    { i \in DOMAIN out : out[i].via = "callout" /\ out[i].gen = hist[out[i].ctx].gen }

(* C19: after a gate-passing callout the last-register map holds all eight *)
(* watched registers as the context has them; every line a callout prints  *)
(* is the line of gate-passing hit h with the watched registers that       *)
(* differ between the contexts seen by hits h and h + 1, the printing one; *)
(* so the diff of hit 1 is on no line.                                     *)
C19_DiffContent ==
    /\ \A t \in Callouts :
         last[t].passed =>
            acts[last[t].ctx].lastRegs = [n \in Watched |-> PtrToString(regs[t][n])]
    /\ \A i \in FlushedByCallout :
         LET lines == hist[out[i].ctx].lines
         IN  /\ out[i].hit >= 1 /\ out[i].at = out[i].hit + 1
             /\ out[i].text =
                    lines[out[i].hit].line
                    \o DiffString(Differing(lines[out[i].hit].seen, lines[out[i].at].seen))

(* in the second activation of the hot loop a line has been printed with   *)
(* the change of x2 made by the suppressed eleventh `sub`, and a line with *)
(* the change of x8 made by code outside the target module                 *)
C19_WitnessBetween ==
    /\ prog = "loop" /\ hist[<< 1, 1 >>].gen = 2
    /\ FuncAddr + 4 \in DOMAIN hist[<< 1, 1 >>].calls
    /\ hist[<< 1, 1 >>].calls[FuncAddr + 4] = LOOP_THRESHOLD + 1
    /\ \A n \in { "x2", "x8" } :
         \E i \in FlushedByCallout :
            LET lines == hist[out[i].ctx].lines
            IN  /\ lines[out[i].hit].seen[n] # lines[out[i].at].seen[n]
                /\ lines[out[i].hit].seen["pc"] >= FuncAddr + 8

(* the instruction lines printed so far for the activation now using a *)
EmittedFor(a) ==
    LET Mine(e) == e.kind = "line" /\ e.ctx = a /\ e.gen = hist[a].gen
    IN  SelectSeq(out, Mine)

====
